---- MODULE Spec2Model ----
(***************************************************************************)
(* Observer / publish-subscribe core of the design-patterns repository:    *)
(* EventEmitter, ObservableStore and NewsPublisher (ObserverPattern.ts),   *)
(* the ConfigurationManager, Logger, ConnectionPool and AppStore           *)
(* singletons (SingletonPattern.ts) and the TodoModel (MVCPattern.ts).     *)
(*                                                                         *)
(* Callbacks are caller-supplied code.  A callback that has been invoked   *)
(* and has not returned yet is "running": it is then the caller of the     *)
(* API, so every API operation is enabled both at top level (empty call    *)
(* stack) and while a callback runs.  A running callback ends by returning *)
(* or by throwing.  JavaScript Set/Map forEach is a live iteration in      *)
(* insertion order: entries deleted before their turn are not visited,     *)
(* entries appended during the iteration are visited.                      *)
(***************************************************************************)
EXTENDS Integers, Sequences, FiniteSets, TLC

\* ------------------------------------------------------------------ bounds
NumCallbacks == 2
MaxDepth == 2
MaxReentrant == 1
MaxOnceCalls == 2

\* Event names (the empty string is a legal, falsy, event name) and the data
\* passed to emit.
Topics == {"", "a"}
Payloads == {"p1"}
Callbacks == 1..NumCallbacks
\* The wrapper closure a once() call creates and registers in place of its
\* callback; the model follows one once() call.
Wrapper == 0
AllCallbacks == Callbacks \cup {Wrapper}
Undefined == "undefined"
NoHandle == <<>>

VARIABLES
  events,   \* EventEmitter.events: topic -> insertion-ordered set of callbacks
  estack,   \* emit calls in progress, innermost last
  ehandle,  \* the unsubscribe closure returned by on() that the caller last kept
  eops,     \* API calls made by running callbacks since the stack was last empty
  edup,     \* the kept closure came from an on() of a callback already registered,
            \* and that callback has stayed registered since
  eonce,    \* <<event>> captured by the wrapper of the once() call, if one was made
  ecalls    \* how many times the callback given to once() has been invoked

evars == <<events, estack, ehandle, eops, edup, eonce, ecalls>>

VARIABLES
  sstate,     \* ObservableStore.state
  observers,  \* ObservableStore.observers, in insertion order
  sstack,     \* notify passes and subscribe calls in progress, innermost last
  sformer,    \* observers removed by unsubscribe since they last subscribed
  sops,       \* API calls made by running update()s since the stack was empty
  sthrown,    \* the last setState call ended by its updater's exception
  sheap,      \* the content of each state object (state values are references)
  sseen       \* the value last passed to each observer's update() during the
              \* top-level call in progress (NotSeen: none)

svars == <<sstate, observers, sstack, sformer, sops, sthrown, sheap, sseen>>

VARIABLES
  subscribers,       \* NewsPublisher.subscribers: Map id -> subscriber, in insertion order
  articles,          \* NewsPublisher.articles
  articleIdCounter,  \* NewsPublisher.articleIdCounter
  nstack,            \* publish calls in progress, innermost last
  nhandle,           \* the subscriber whose unsubscribe closure the caller last kept
  nops,              \* API calls made by running onNews callbacks since the stack was empty
  nfailed,           \* ids of the articles whose publish call ended by an exception
  nown               \* the subscription made by the call that returned the kept
                     \* closure is still the one registered under its id

nvars == <<subscribers, articles, articleIdCounter, nstack, nhandle, nops, nfailed, nown>>

VARIABLES
  cmInstance,  \* ConfigurationManager.instance (static): NoInstance or an object
  cmCreated,   \* how many ConfigurationManager objects were constructed
  cmConfigs,   \* the config map of each constructed ConfigurationManager
  cmRefs,      \* the reference each client got from ConfigurationManager.getInstance()
  lgInstance,  \* Logger.instance (static)
  lgCreated,   \* how many Logger objects were constructed
  lgLevels,    \* the level field of each constructed Logger
  lgRefs,      \* the reference each client got from Logger.getInstance()
  lgLogs,      \* the logs field of each constructed Logger
  lgLast       \* the last debug/info/warn/error call, if no other Logger call
               \* followed it: its level, the current level and the log before it

gvars == <<cmInstance, cmCreated, cmConfigs, cmRefs,
           lgInstance, lgCreated, lgLevels, lgRefs, lgLogs, lgLast>>

VARIABLES
  todos,       \* TodoModel.todos
  listeners,   \* TodoModel.listeners, in insertion order
  idCounter,   \* TodoModel.idCounter
  tstack,      \* notifyListeners passes in progress, innermost last
  thandle,     \* <<listener>> of the closure addChangeListener returned that the
               \* caller last kept
  tformer,     \* listeners whose closure was invoked, not added again since
  tops         \* API calls made by running listeners since the stack was empty

tvars == <<todos, listeners, idCounter, tstack, thandle, tformer, tops>>

VARIABLES
  connections,          \* ConnectionPool.connections
  maxConnections,       \* ConnectionPool.maxConnections
  connectionIdCounter,  \* ConnectionPool.connectionIdCounter
  pwait,                \* each caller's pending acquire(): NotWaiting, or the
                        \* retry timer it sleeps on (each retry arms a new
                        \* timer; they are numbered 1, 2, 1, ...)
  pgrant                \* the id of the connection acquire() returned to each
                        \* caller, until release is called with that id (NoConn: none)

pvars == <<connections, maxConnections, connectionIdCounter, pwait, pgrant>>

VARIABLES
  astate,   \* AppStore.state
  aflight   \* how many calls of each load method have started and not completed

avars == <<astate, aflight>>

ovars == <<tvars, pvars, avars>>

\* ------------------------------------------------- insertion-ordered sets
Range(s) == {s[i] : i \in DOMAIN s}
Has(s, x) == \E i \in DOMAIN s : s[i] = x
IndexOf(s, x) == CHOOSE i \in DOMAIN s : s[i] = x
\* Set.prototype.add: appends unless already present
SetAdd(s, x) == IF Has(s, x) THEN s ELSE Append(s, x)
\* Set.prototype.delete
SetDelete(s, x) == SelectSeq(s, LAMBDA y : y # x)
Count(s, x) == Cardinality({i \in DOMAIN s : s[i] = x})
Last(s) == s[Len(s)]
Front(s) == SubSeq(s, 1, Len(s) - 1)

\* Map.prototype.delete / set on the events map
MapDelete(m, k) == [x \in DOMAIN m \ {k} |-> m[x]]
MapSet(m, k, v) == [x \in DOMAIN m \cup {k} |-> IF x = k THEN v ELSE m[x]]
EmptyMap == [x \in {} |-> <<>>]

\* ---------------------------------------------------------- EventEmitter
\* Who may call the API now: the top-level program, or the running callback.
ECallerActive ==
  IF estack = <<>> THEN TRUE
  ELSE Last(estack).running /\ eops < MaxReentrant

ECount == IF estack = <<>> THEN 0 ELSE eops + 1

\* The Set object an emit frame iterates: the topic's live set, or the set
\* object it captured if the map entry was deleted during the pass.
FrameSet(f) == IF f.live THEN events[f.event] ELSE f.set

\* Mutant of OnEvents: the listeners are kept in an array, on() pushes.
OnEvents_Push(ev, t, c) ==
  IF t \in DOMAIN ev THEN MapSet(ev, t, Append(ev[t], c))
  ELSE MapSet(ev, t, <<c>>)

\* events after on(event, callback)
OnEvents(ev, t, c) ==
  IF t \in DOMAIN ev THEN MapSet(ev, t, SetAdd(ev[t], c))
  ELSE MapSet(ev, t, <<c>>)

\* Mutant of OffEvents: splice(indexOf(callback), 1) on an absent callback
\* removes the last listener; a present callback is left in place.
OffEvents_Splice(ev, t, c) ==
  IF t \in DOMAIN ev /\ ev[t] # <<>> /\ ~Has(ev[t], c)
  THEN MapSet(ev, t, Front(ev[t])) ELSE ev

\* Mutant of OffEvents: off finds the set but does not delete the callback.
OffEvents_Keep(ev, t, c) == ev

\* events after off(event, callback)
OffEvents(ev, t, c) ==
  IF t \in DOMAIN ev THEN MapSet(ev, t, SetDelete(ev[t], c)) ELSE ev

\* The callback that is running now (the caller of a reentrant API call).
RunningCallback == Last(Last(estack).visited)[1]

\* A live forEach over topic t after callback c was deleted from the set:
\* entries behind the cursor shift down by one.  removed and offOther record
\* what was deleted during the pass and whether a callback deleted another.
FrameAfterDelete(f, t, c) ==
  IF f.live /\ f.event = t /\ Has(events[t], c)
  THEN [f EXCEPT !.pos = IF IndexOf(events[t], c) <= f.pos THEN f.pos - 1 ELSE f.pos,
                 !.removed = f.removed \cup {c},
                 !.offOther = f.offOther \/ c # RunningCallback]
  ELSE f

FrameAfterAdd(f, t, c) ==
  IF f.live /\ f.event = t /\ ~Has(events[t], c)
  THEN [f EXCEPT !.added = f.added \cup {c}]
  ELSE f

\* once(event, callback): registers wrapper = (data) => { callback(data);
\* this.off(event, wrapper) } through on, and returns on's closure
Once(t, keep) ==
  /\ ECallerActive
  /\ eonce = NoHandle
  /\ events' = OnEvents(events, t, Wrapper)
  /\ estack' = [i \in DOMAIN estack |-> FrameAfterAdd(estack[i], t, Wrapper)]
  /\ ehandle' = IF keep THEN <<t, Wrapper>> ELSE ehandle
  /\ eops' = ECount
  /\ eonce' = <<t>>
  /\ edup' = IF keep THEN FALSE ELSE edup
  /\ UNCHANGED ecalls
  /\ UNCHANGED <<svars, nvars, gvars, ovars>>

\* on(event, callback): returns the closure () => this.off(event, callback)
On(t, c, keep) ==
  /\ ECallerActive
  /\ events' = OnEvents(events, t, c)
  /\ estack' = [i \in DOMAIN estack |-> FrameAfterAdd(estack[i], t, c)]
  /\ ehandle' = IF keep THEN <<t, c>> ELSE ehandle
  /\ eops' = ECount
  /\ edup' = IF keep THEN t \in DOMAIN events /\ Has(events[t], c) ELSE edup
  /\ UNCHANGED <<eonce, ecalls>>
  /\ UNCHANGED <<svars, nvars, gvars, ovars>>

\* off(event, callback)
Off(t, c) ==
  /\ ECallerActive
  /\ events' = OffEvents(events, t, c)
  /\ estack' = IF t \in DOMAIN events
               THEN [i \in DOMAIN estack |-> FrameAfterDelete(estack[i], t, c)]
               ELSE estack
  /\ eops' = ECount
  /\ edup' = IF ehandle = <<t, c>> THEN FALSE ELSE edup
  /\ UNCHANGED ehandle
  /\ UNCHANGED <<eonce, ecalls>>
  /\ UNCHANGED <<svars, nvars, gvars, ovars>>

\* Invoking a handle returned by on(): runs this.off(event, callback).
InvokeHandle(h) ==
  /\ h = ehandle
  /\ ECallerActive
  /\ events' = OffEvents(events, h[1], h[2])
  /\ estack' = IF h[1] \in DOMAIN events
               THEN [i \in DOMAIN estack |-> FrameAfterDelete(estack[i], h[1], h[2])]
               ELSE estack
  /\ eops' = ECount
  /\ edup' = FALSE
  /\ UNCHANGED ehandle
  /\ UNCHANGED <<eonce, ecalls>>
  /\ UNCHANGED <<svars, nvars, gvars, ovars>>

NewFrame(t, d) ==
  [event |-> t, data |-> d, live |-> TRUE, set |-> <<>>, pos |-> 0,
   running |-> FALSE, visited |-> <<>>, start |-> Range(events[t]),
   added |-> {}, removed |-> {}, offOther |-> FALSE]

\* emit(event, data): forEach over the topic's set, if the topic has one
Emit(t, d) ==
  /\ ECallerActive
  /\ Len(estack) < MaxDepth
  /\ estack' = IF t \in DOMAIN events THEN Append(estack, NewFrame(t, d)) ELSE estack
  /\ eops' = ECount
  /\ UNCHANGED <<events, ehandle>>
  /\ UNCHANGED edup
  /\ UNCHANGED <<eonce, ecalls>>
  /\ UNCHANGED <<svars, nvars, gvars, ovars>>

\* forEach calls the next callback with the emitted data
EmitDeliver ==
  /\ estack # <<>>
  /\ ~Last(estack).running
  /\ Last(estack).pos < Len(FrameSet(Last(estack)))
  /\ LET f == Last(estack)
         c == FrameSet(f)[f.pos + 1]
     IN /\ estack' = Append(Front(estack),
                    [f EXCEPT !.pos = f.pos + 1, !.running = TRUE,
                              !.visited = Append(f.visited, <<c, f.data>>)])
        /\ ecalls' = IF c = Wrapper /\ ecalls < MaxOnceCalls THEN ecalls + 1 ELSE ecalls
  /\ UNCHANGED <<events, ehandle, eops>>
  /\ UNCHANGED edup
  /\ UNCHANGED eonce
  /\ UNCHANGED <<svars, nvars, gvars, ovars>>

\* forEach has passed the last entry: emit returns to its caller
EmitReturn ==
  /\ estack # <<>>
  /\ ~Last(estack).running
  /\ Last(estack).pos >= Len(FrameSet(Last(estack)))
  /\ estack' = Front(estack)
  /\ eops' = IF Len(estack) = 1 THEN 0 ELSE eops
  /\ UNCHANGED <<events, ehandle>>
  /\ UNCHANGED edup
  /\ UNCHANGED <<eonce, ecalls>>
  /\ UNCHANGED <<svars, nvars, gvars, ovars>>

\* the running callback returns normally.  In the wrapper of once(), the
\* callback has returned and the wrapper goes on to this.off(event, wrapper).
CallbackReturn ==
  /\ estack # <<>>
  /\ Last(estack).running
  /\ LET after == IF RunningCallback = Wrapper /\ eonce[1] \in DOMAIN events
                  THEN [i \in DOMAIN estack |->
                          FrameAfterDelete(estack[i], eonce[1], Wrapper)]
                  ELSE estack
     IN estack' = Append(Front(after), [Last(after) EXCEPT !.running = FALSE])
  /\ events' = IF RunningCallback = Wrapper
               THEN OffEvents(events, eonce[1], Wrapper) ELSE events
  /\ UNCHANGED <<ehandle, eops>>
  /\ UNCHANGED edup
  /\ UNCHANGED <<eonce, ecalls>>
  /\ UNCHANGED <<svars, nvars, gvars, ovars>>

\* the running callback throws: forEach and emit have no try/catch, the
\* exception leaves emit and reaches emit's caller
CallbackThrow ==
  /\ estack # <<>>
  /\ Last(estack).running
  /\ estack' = Front(estack)
  /\ eops' = IF Len(estack) = 1 THEN 0 ELSE eops
  /\ UNCHANGED <<events, ehandle>>
  /\ UNCHANGED edup
  /\ UNCHANGED <<eonce, ecalls>>
  /\ UNCHANGED <<svars, nvars, gvars, ovars>>

\* A live frame whose map entry is deleted keeps iterating the old Set object.
Detach(f, gone) ==
  IF f.live /\ f.event \in gone
  THEN [f EXCEPT !.live = FALSE, !.set = events[f.event]]
  ELSE f

\* removeAllListeners(event?): `if (event)` is false for undefined and for ""
RemoveAllListeners(arg) ==
  /\ ECallerActive
  /\ LET truthy == arg # Undefined /\ arg # ""
         gone == IF truthy THEN {arg} \cap DOMAIN events ELSE DOMAIN events
     IN /\ events' = IF truthy THEN MapDelete(events, arg) ELSE EmptyMap
        /\ estack' = [i \in DOMAIN estack |-> Detach(estack[i], gone)]
        /\ edup' = IF ehandle # NoHandle /\ ehandle[1] \in gone THEN FALSE ELSE edup
  /\ eops' = ECount
  /\ UNCHANGED ehandle
  /\ UNCHANGED <<eonce, ecalls>>
  /\ UNCHANGED <<svars, nvars, gvars, ovars>>

\* Mutant of ListenerCount: the size of the events map instead of the set's.
ListenerCount_MapSize(t) == Cardinality(DOMAIN events)

\* listenerCount(event): this.events.get(event)?.size || 0
ListenerCount(t) == IF t \in DOMAIN events THEN Len(events[t]) ELSE 0

EInit ==
  /\ events = EmptyMap
  /\ estack = <<>>
  /\ ehandle = NoHandle
  /\ eops = 0
  /\ edup = FALSE
  /\ eonce = NoHandle
  /\ ecalls = 0


\* --------------------------------------------------------- ObservableStore
\* State values are object references: two values are identical iff they are
\* the same reference.
NumObservers == 2
NumRefs == 2
Observers == 1..NumObservers
Refs == 1..NumRefs
InitialState == 1

\* What a state object can hold (say, its count field)
Contents == {"c0", "c1"}
InitialContent == "c0"

\* What setState accepts: a replacement value, or an updater function
\* (prev) => next.  The updaters are the identity, the constant functions
\* and an updater that throws instead of returning.  An updater is a pure
\* function of prev.
Thrown == 0
ThrowingUpdater == [p \in Refs |-> Thrown]
Updaters ==
  {[p \in Refs |-> p]} \cup {[p \in Refs |-> r] : r \in Refs} \cup {ThrowingUpdater}
SetStateArgs == [fn : {FALSE}, v : Refs] \cup [fn : {TRUE}, f : Updaters]


\* no update() call was made yet in the top-level call in progress
NotSeen == 0
NoneSeen == [o \in Observers |-> NotSeen]

SCallerActive ==
  IF sstack = <<>> THEN TRUE
  ELSE Last(sstack).running /\ sops < MaxReentrant

SCount == IF sstack = <<>> THEN 0 ELSE sops + 1

\* getState()
GetState == sstate

\* Mutant of NotifyFrame: the pass delivers the state held before the call.
NotifyFrame_Stale(kind, d) ==
  [kind |-> kind, data |-> sstate, pos |-> 0, running |-> FALSE, visited |-> <<>>,
   start |-> Range(observers), added |-> {}, removed |-> {}]

\* notify(data): this.observers.forEach(observer => observer.update(data))
NotifyFrame(kind, d) ==
  [kind |-> kind, data |-> d, pos |-> 0, running |-> FALSE, visited |-> <<>>,
   start |-> Range(observers), added |-> {}, removed |-> {}]

\* the state setState stores
NextState(prev, arg) == IF arg.fn THEN arg.f[prev] ELSE arg.v

\* the call (newState as (prev) => T)(previousState) throws
UpdaterThrows(prev, arg) == arg.fn /\ arg.f[prev] = Thrown

\* Mutant of StateAfterSetState: the updater's error is caught and stored.
StateAfterSetState_StoreError(prev, arg) == NextState(prev, arg)

\* this.state after setState: the assignment this.state = f(previousState)
\* does not happen when f throws
StateAfterSetState(prev, arg) ==
  IF UpdaterThrows(prev, arg) THEN prev ELSE NextState(prev, arg)

\* "Only notify if state actually changed": this.state !== previousState
StateChanged(new, prev) == new # prev

\* setState(newState): an updater's exception leaves setState at once
SetState(arg) ==
  /\ SCallerActive
  /\ Len(sstack) < MaxDepth
  /\ sstate' = StateAfterSetState(sstate, arg)
  /\ sstack' = IF ~UpdaterThrows(sstate, arg)
                  /\ StateChanged(NextState(sstate, arg), sstate)
               THEN Append(sstack, NotifyFrame("setState", NextState(sstate, arg)))
               ELSE sstack
  /\ sthrown' = UpdaterThrows(sstate, arg)
  /\ sops' = SCount
  /\ UNCHANGED <<observers, sformer>>
  /\ UNCHANGED sheap
  /\ UNCHANGED sseen
  /\ UNCHANGED <<evars, nvars, gvars, ovars>>

\* notify(data) called directly (it is a public method of Subject)
Notify(d) ==
  /\ SCallerActive
  /\ Len(sstack) < MaxDepth
  /\ sstack' = Append(sstack, NotifyFrame("notify", d))
  /\ sops' = SCount
  /\ UNCHANGED <<sstate, observers, sformer, sthrown>>
  /\ UNCHANGED sheap
  /\ UNCHANGED sseen
  /\ UNCHANGED <<evars, nvars, gvars, ovars>>

\* Mutant of SubscribeFrame: subscribe adds the observer without calling update.
SubscribeFrame_NoReplay(o) ==
  [kind |-> "subscribe", data |-> sstate, pos |-> 0, running |-> TRUE,
   visited |-> <<>>, start |-> {o}, added |-> {}, removed |-> {}]

\* the observer.update(this.state) call subscribe makes
SubscribeFrame(o) ==
  [kind |-> "subscribe", data |-> sstate, pos |-> 0, running |-> TRUE,
   visited |-> <<<<o, sstate>>>>, start |-> {o}, added |-> {}, removed |-> {}]

SFrameAfterAdd(f, o) ==
  IF f.kind # "subscribe" /\ ~Has(observers, o)
  THEN [f EXCEPT !.added = f.added \cup {o}]
  ELSE f

SFrameAfterDelete(f, o) ==
  IF f.kind # "subscribe" /\ Has(observers, o)
  THEN [f EXCEPT !.pos = IF IndexOf(observers, o) <= f.pos THEN f.pos - 1 ELSE f.pos,
                 !.removed = f.removed \cup {o}]
  ELSE f

\* subscribe(observer): add, then update(current state)
Subscribe(o) ==
  /\ SCallerActive
  /\ Len(sstack) < MaxDepth
  /\ observers' = SetAdd(observers, o)
  /\ sstack' = Append([i \in DOMAIN sstack |-> SFrameAfterAdd(sstack[i], o)],
                      SubscribeFrame(o))
  /\ sformer' = sformer \ {o}
  /\ sops' = SCount
  /\ UNCHANGED <<sstate, sthrown>>
  /\ UNCHANGED sheap
  /\ sseen' = [sseen EXCEPT ![o] = sstate]
  /\ UNCHANGED <<evars, nvars, gvars, ovars>>

\* Mutant of UnsubscribeObservers: the observer is not deleted.
UnsubscribeObservers_Keep(obs, o) == obs

\* observers after unsubscribe(observer)
UnsubscribeObservers(obs, o) == SetDelete(obs, o)

\* unsubscribe(observer)
Unsubscribe(o) ==
  /\ SCallerActive
  /\ observers' = UnsubscribeObservers(observers, o)
  /\ sstack' = [i \in DOMAIN sstack |-> SFrameAfterDelete(sstack[i], o)]
  /\ sformer' = IF Has(observers, o) THEN sformer \cup {o} ELSE sformer
  /\ sops' = SCount
  /\ UNCHANGED <<sstate, sthrown>>
  /\ UNCHANGED sheap
  /\ UNCHANGED sseen
  /\ UNCHANGED <<evars, nvars, gvars, ovars>>

\* forEach calls the next observer's update with the notified data
StoreDeliver ==
  /\ sstack # <<>>
  /\ Last(sstack).kind # "subscribe"
  /\ ~Last(sstack).running
  /\ Last(sstack).pos < Len(observers)
  /\ LET f == Last(sstack)
         o == observers[f.pos + 1]
     IN sstack' = Append(Front(sstack),
                    [f EXCEPT !.pos = f.pos + 1, !.running = TRUE,
                              !.visited = Append(f.visited, <<o, f.data>>)])
  /\ UNCHANGED <<sstate, observers, sformer, sops, sthrown>>
  /\ UNCHANGED sheap
  /\ sseen' = [sseen EXCEPT ![observers[Last(sstack).pos + 1]] = Last(sstack).data]
  /\ UNCHANGED <<evars, nvars, gvars, ovars>>

\* forEach has passed the last observer: notify (and setState) return
NotifyReturn ==
  /\ sstack # <<>>
  /\ Last(sstack).kind # "subscribe"
  /\ ~Last(sstack).running
  /\ Last(sstack).pos >= Len(observers)
  /\ sstack' = Front(sstack)
  /\ sops' = IF Len(sstack) = 1 THEN 0 ELSE sops
  /\ UNCHANGED <<sstate, observers, sformer, sthrown>>
  /\ UNCHANGED sheap
  /\ sseen' = IF Len(sstack) = 1 THEN NoneSeen ELSE sseen
  /\ UNCHANGED <<evars, nvars, gvars, ovars>>

\* the running update() returns: forEach goes on, or subscribe returns
UpdateReturn ==
  /\ sstack # <<>>
  /\ Last(sstack).running
  /\ sstack' = IF Last(sstack).kind = "subscribe" THEN Front(sstack)
               ELSE Append(Front(sstack), [Last(sstack) EXCEPT !.running = FALSE])
  /\ sops' = IF Len(sstack) = 1 /\ Last(sstack).kind = "subscribe" THEN 0 ELSE sops
  /\ UNCHANGED <<sstate, observers, sformer, sthrown>>
  /\ UNCHANGED sheap
  /\ sseen' = IF Len(sstack) = 1 /\ Last(sstack).kind = "subscribe" THEN NoneSeen ELSE sseen
  /\ UNCHANGED <<evars, nvars, gvars, ovars>>

\* the running update() throws: nothing catches it in notify, setState or
\* subscribe, so it ends the call in progress
UpdateThrow ==
  /\ sstack # <<>>
  /\ Last(sstack).running
  /\ sstack' = Front(sstack)
  /\ sops' = IF Len(sstack) = 1 THEN 0 ELSE sops
  /\ UNCHANGED <<sstate, observers, sformer, sthrown>>
  /\ UNCHANGED sheap
  /\ sseen' = IF Len(sstack) = 1 THEN NoneSeen ELSE sseen
  /\ UNCHANGED <<evars, nvars, gvars, ovars>>

\* A caller of getState() writes to the object it was handed:
\*   const s = store.getState(); s.count = v
\* getState returns this.state itself, so the write lands in that object.
MutateReturned(v) ==
  /\ SCallerActive
  /\ sheap[GetState] # v
  /\ sheap' = [sheap EXCEPT ![GetState] = v]
  /\ sops' = SCount
  /\ UNCHANGED <<sstate, observers, sstack, sformer, sthrown>>
  /\ UNCHANGED sseen
  /\ UNCHANGED <<evars, nvars, gvars, ovars>>

SInit ==
  /\ sstate = InitialState
  /\ observers = <<>>
  /\ sstack = <<>>
  /\ sformer = {}
  /\ sops = 0
  /\ sthrown = FALSE
  /\ sseen = NoneSeen
  /\ sheap = [r \in Refs |-> InitialContent]


\* ----------------------------------------------------------- NewsPublisher
MaxArticles == 2
SubscriberIds == {"s1", "s2"}
Wildcard == "all"
ArticleCategories == {"tech", "sports"}
CategoryLists == {{"tech"}, {"sports"}, {Wildcard}}
\* NewsSubscriber objects; onNews is the object's own callback
Subscribers == [id : SubscriberIds, categories : CategoryLists]


NCallerActive ==
  IF nstack = <<>> THEN TRUE
  ELSE Last(nstack).running /\ nops < MaxReentrant

NCount == IF nstack = <<>> THEN 0 ELSE nops + 1

HasKey(m, id) == \E i \in DOMAIN m : m[i].id = id
KeyIndex(m, id) == CHOOSE i \in DOMAIN m : m[i].id = id
\* Map.prototype.set: an existing key keeps its place, a new key is appended
SubscribersSet(m, sub) ==
  IF HasKey(m, sub.id) THEN [m EXCEPT ![KeyIndex(m, sub.id)] = sub]
  ELSE Append(m, sub)
\* Map.prototype.delete
SubscribersDelete(m, id) == SelectSeq(m, LAMBDA x : x.id # id)

\* subscriber.categories.includes("all") || includes(article.category)
Interested(sub, category) ==
  Wildcard \in sub.categories \/ category \in sub.categories

\* Mutant of NewArticle: post-increment, id: this.articleIdCounter++
NewArticle_PostIncrement(category) == [id |-> articleIdCounter, category |-> category]

\* Mutant of NewArticle: the id of a publish that failed is handed out again.
NewArticle_ReuseFailed(category) ==
  [id |-> articleIdCounter + 1 - Cardinality(nfailed), category |-> category]

\* { ...article, id: ++this.articleIdCounter, publishedAt }
NewArticle(category) == [id |-> articleIdCounter + 1, category |-> category]

\* getArticles(): a copy of the log
GetArticles == [i \in DOMAIN articles |-> articles[i]]

\* getSubscriberCount()
GetSubscriberCount == Len(subscribers)

NFrameAfterDelete(f, id) ==
  IF HasKey(subscribers, id)
  THEN [f EXCEPT !.pos = IF KeyIndex(subscribers, id) <= f.pos THEN f.pos - 1 ELSE f.pos,
                 !.removed = f.removed \cup {id}]
  ELSE f

\* subscribe(subscriber): returns the closure () => this.unsubscribe(subscriber.id)
NewsSubscribe(sub, keep) ==
  /\ NCallerActive
  /\ subscribers' = SubscribersSet(subscribers, sub)
  /\ nhandle' = IF keep THEN sub ELSE nhandle
  /\ nown' = IF keep THEN TRUE
             ELSE IF nhandle # NoHandle /\ nhandle.id = sub.id THEN FALSE ELSE nown
  /\ nops' = NCount
  /\ UNCHANGED <<articles, articleIdCounter, nstack>>
  /\ UNCHANGED nfailed
  /\ UNCHANGED <<evars, svars, gvars, ovars>>

\* unsubscribe(subscriberId)
NewsUnsubscribe(id) ==
  /\ NCallerActive
  /\ subscribers' = SubscribersDelete(subscribers, id)
  /\ nstack' = [i \in DOMAIN nstack |-> NFrameAfterDelete(nstack[i], id)]
  /\ nown' = IF nhandle # NoHandle /\ nhandle.id = id THEN FALSE ELSE nown
  /\ nops' = NCount
  /\ UNCHANGED <<articles, articleIdCounter, nhandle>>
  /\ UNCHANGED nfailed
  /\ UNCHANGED <<evars, svars, gvars, ovars>>

\* invoking the closure returned by subscribe(sub): this.unsubscribe(sub.id)
NewsInvokeHandle ==
  /\ nhandle # NoHandle
  /\ NCallerActive
  /\ subscribers' = SubscribersDelete(subscribers, nhandle.id)
  /\ nstack' = [i \in DOMAIN nstack |-> NFrameAfterDelete(nstack[i], nhandle.id)]
  /\ nown' = FALSE
  /\ nops' = NCount
  /\ UNCHANGED <<articles, articleIdCounter, nhandle>>
  /\ UNCHANGED nfailed
  /\ UNCHANGED <<evars, svars, gvars, ovars>>

\* publish(article): number it, log it, then forEach over the subscribers
Publish(category) ==
  /\ NCallerActive
  /\ Len(nstack) < MaxDepth
  /\ articleIdCounter < MaxArticles
  /\ articleIdCounter' = articleIdCounter + 1
  /\ articles' = Append(articles, NewArticle(category))
  /\ nstack' = Append(nstack,
       [article |-> NewArticle(category), pos |-> 0, running |-> FALSE,
        visited |-> <<>>, start |-> Range(subscribers), removed |-> {}])
  /\ nops' = NCount
  /\ UNCHANGED <<subscribers, nhandle>>
  /\ UNCHANGED nfailed
  /\ UNCHANGED nown
  /\ UNCHANGED <<evars, svars, gvars, ovars>>

\* forEach visits the next subscriber: onNews(newArticle) if it is interested
PublishVisit ==
  /\ nstack # <<>>
  /\ ~Last(nstack).running
  /\ Last(nstack).pos < Len(subscribers)
  /\ LET f == Last(nstack)
         sub == subscribers[f.pos + 1]
     IN nstack' = Append(Front(nstack),
          IF Interested(sub, f.article.category)
          THEN [f EXCEPT !.pos = f.pos + 1, !.running = TRUE,
                         !.visited = Append(f.visited, <<sub, f.article>>)]
          ELSE [f EXCEPT !.pos = f.pos + 1])
  /\ UNCHANGED <<subscribers, articles, articleIdCounter, nhandle, nops>>
  /\ UNCHANGED nfailed
  /\ UNCHANGED nown
  /\ UNCHANGED <<evars, svars, gvars, ovars>>

\* forEach has passed the last subscriber: publish returns newArticle
PublishReturn ==
  /\ nstack # <<>>
  /\ ~Last(nstack).running
  /\ Last(nstack).pos >= Len(subscribers)
  /\ nstack' = Front(nstack)
  /\ nops' = IF Len(nstack) = 1 THEN 0 ELSE nops
  /\ UNCHANGED <<subscribers, articles, articleIdCounter, nhandle>>
  /\ UNCHANGED nfailed
  /\ UNCHANGED nown
  /\ UNCHANGED <<evars, svars, gvars, ovars>>

\* the running onNews returns
OnNewsReturn ==
  /\ nstack # <<>>
  /\ Last(nstack).running
  /\ nstack' = Append(Front(nstack), [Last(nstack) EXCEPT !.running = FALSE])
  /\ UNCHANGED <<subscribers, articles, articleIdCounter, nhandle, nops>>
  /\ UNCHANGED nfailed
  /\ UNCHANGED nown
  /\ UNCHANGED <<evars, svars, gvars, ovars>>

\* the running onNews throws: the exception leaves forEach and publish
OnNewsThrow ==
  /\ nstack # <<>>
  /\ Last(nstack).running
  /\ nstack' = Front(nstack)
  /\ nops' = IF Len(nstack) = 1 THEN 0 ELSE nops
  /\ nfailed' = nfailed \cup {Last(nstack).article.id}
  /\ UNCHANGED <<subscribers, articles, articleIdCounter, nhandle>>
  /\ UNCHANGED nown
  /\ UNCHANGED <<evars, svars, gvars, ovars>>

NInit ==
  /\ subscribers = <<>>
  /\ articles = <<>>
  /\ articleIdCounter = 0
  /\ nstack = <<>>
  /\ nhandle = NoHandle
  /\ nops = 0
  /\ nfailed = {}
  /\ nown = FALSE


\* --------------------------------------- ConfigurationManager and Logger
\* Objects are numbered in the order of their construction; values are
\* written as strings ("5000" is the number 5000).
NumClients == 2
Clients == 1..NumClients
NoInstance == 0
ConfigKeys == {"apiUrl", "timeout", "maxRetries", "theme", "language", "customKey"}
\* the keys and values the clients pass to set()
SetKeys == {"timeout", "customKey"}
SetValues == {"10000", "customValue"}
LogLevels == {"debug", "info", "warn", "error"}

\* the config map the constructor builds
DefaultConfig ==
  [k \in {"apiUrl", "timeout", "maxRetries", "theme", "language"} |->
     CASE k = "apiUrl" -> "https://api.example.com"
       [] k = "timeout" -> "5000"
       [] k = "maxRetries" -> "3"
       [] k = "theme" -> "light"
       [] k = "language" -> "en"]

\* the config map reset() builds
ResetConfig ==
  [k \in {"apiUrl", "timeout", "maxRetries"} |->
     CASE k = "apiUrl" -> "https://api.example.com"
       [] k = "timeout" -> "5000"
       [] k = "maxRetries" -> "3"]

\* Mutant of CmMissing: getInstance constructs on every call.
CmMissing_Always(inst) == TRUE

\* if (!ConfigurationManager.instance)
CmMissing(inst) == inst = NoInstance

\* ConfigurationManager.getInstance(), the result kept by client k
CmGetInstance(k) ==
  /\ cmCreated' = IF CmMissing(cmInstance) THEN cmCreated + 1 ELSE cmCreated
  /\ cmInstance' = IF CmMissing(cmInstance) THEN cmCreated + 1 ELSE cmInstance
  /\ cmConfigs' = IF CmMissing(cmInstance)
                  THEN MapSet(cmConfigs, cmCreated + 1, DefaultConfig)
                  ELSE cmConfigs
  /\ cmRefs' = [cmRefs EXCEPT ![k] = cmInstance']
  /\ UNCHANGED <<lgInstance, lgCreated, lgLevels, lgRefs, lgLogs, lgLast>>
  /\ UNCHANGED <<evars, svars, nvars, ovars>>

\* get(key) through client k's reference
CmGet(k, key) ==
  IF key \in DOMAIN cmConfigs[cmRefs[k]] THEN cmConfigs[cmRefs[k]][key]
  ELSE Undefined

\* getAll() through client k's reference
CmGetAll(k) == cmConfigs[cmRefs[k]]

\* set(key, value) through client k's reference
CmSet(k, key, value) ==
  /\ cmRefs[k] # NoInstance
  /\ cmConfigs' = [cmConfigs EXCEPT ![cmRefs[k]] = MapSet(@, key, value)]
  /\ UNCHANGED <<cmInstance, cmCreated, cmRefs>>
  /\ UNCHANGED <<lgInstance, lgCreated, lgLevels, lgRefs, lgLogs, lgLast>>
  /\ UNCHANGED <<evars, svars, nvars, ovars>>

\* reset() through client k's reference
CmReset(k) ==
  /\ cmRefs[k] # NoInstance
  /\ cmConfigs' = [cmConfigs EXCEPT ![cmRefs[k]] = ResetConfig]
  /\ UNCHANGED <<cmInstance, cmCreated, cmRefs>>
  /\ UNCHANGED <<lgInstance, lgCreated, lgLevels, lgRefs, lgLogs, lgLast>>
  /\ UNCHANGED <<evars, svars, nvars, ovars>>

\* if (!Logger.instance)
LgMissing(inst) == inst = NoInstance

\* Logger.getInstance(), the result kept by client k; level starts as 'info'
LgGetInstance(k) ==
  /\ lgCreated' = IF LgMissing(lgInstance) THEN lgCreated + 1 ELSE lgCreated
  /\ lgInstance' = IF LgMissing(lgInstance) THEN lgCreated + 1 ELSE lgInstance
  /\ lgLevels' = IF LgMissing(lgInstance)
                 THEN MapSet(lgLevels, lgCreated + 1, "info")
                 ELSE lgLevels
  /\ lgLogs' = IF LgMissing(lgInstance)
               THEN MapSet(lgLogs, lgCreated + 1, <<>>)
               ELSE lgLogs
  /\ lgRefs' = [lgRefs EXCEPT ![k] = lgInstance']
  /\ UNCHANGED lgLast
  /\ UNCHANGED <<cmInstance, cmCreated, cmConfigs, cmRefs>>
  /\ UNCHANGED <<evars, svars, nvars, ovars>>

\* getLevel() through client k's reference
LgGetLevel(k) == lgLevels[lgRefs[k]]

\* setLevel(level) through client k's reference
LgSetLevel(k, level) ==
  /\ lgRefs[k] # NoInstance
  /\ lgLevels' = [lgLevels EXCEPT ![lgRefs[k]] = level]
  /\ lgLast' = NoHandle
  /\ UNCHANGED <<lgInstance, lgCreated, lgRefs, lgLogs>>
  /\ UNCHANGED <<cmInstance, cmCreated, cmConfigs, cmRefs>>
  /\ UNCHANGED <<evars, svars, nvars, ovars>>

\* maxLogs: 1000 in the source, a small number here
MaxLogs == 3
Messages == {"m1"}

\* levelPriority
LevelPriority == [debug |-> 0, info |-> 1, warn |-> 2, error |-> 3]

\* Mutant of ShouldLog: a call at the current level is dropped.
ShouldLog_Above(level, current) == LevelPriority[level] > LevelPriority[current]

\* shouldLog(level): levelPriority[level] >= levelPriority[this.level]
ShouldLog(level, current) == LevelPriority[level] >= LevelPriority[current]

\* this.logs.slice(-maxLogs)
KeepLast(logs, n) ==
  IF Len(logs) > n THEN SubSeq(logs, Len(logs) - n + 1, Len(logs)) ELSE logs

\* getLogs() with no filter, through client k's reference: a copy of the log
LgGetLogs(k) == [i \in DOMAIN lgLogs[lgRefs[k]] |-> lgLogs[lgRefs[k]][i]]

\* debug/info/warn/error(message) through client k's reference, that is
\* log(level, message): drop the call below the current level, else push the
\* entry and keep the last maxLogs entries
LgLog(k, level, message) ==
  /\ lgRefs[k] # NoInstance
  /\ lgLogs' =
       IF ShouldLog(level, lgLevels[lgRefs[k]])
       THEN [lgLogs EXCEPT ![lgRefs[k]] =
               KeepLast(Append(@, [level |-> level, message |-> message]), MaxLogs)]
       ELSE lgLogs
  /\ lgLast' = [level |-> level, message |-> message,
                current |-> lgLevels[lgRefs[k]], before |-> lgLogs[lgRefs[k]]]
  /\ UNCHANGED <<lgInstance, lgCreated, lgLevels, lgRefs>>
  /\ UNCHANGED <<cmInstance, cmCreated, cmConfigs, cmRefs>>
  /\ UNCHANGED <<evars, svars, nvars, ovars>>

\* clearLogs() through client k's reference
LgClearLogs(k) ==
  /\ lgRefs[k] # NoInstance
  /\ lgLogs' = [lgLogs EXCEPT ![lgRefs[k]] = <<>>]
  /\ lgLast' = NoHandle
  /\ UNCHANGED <<lgInstance, lgCreated, lgLevels, lgRefs>>
  /\ UNCHANGED <<cmInstance, cmCreated, cmConfigs, cmRefs>>
  /\ UNCHANGED <<evars, svars, nvars, ovars>>

GInit ==
  /\ cmInstance = NoInstance
  /\ cmCreated = 0
  /\ cmConfigs = EmptyMap
  /\ cmRefs = [k \in Clients |-> NoInstance]
  /\ lgInstance = NoInstance
  /\ lgCreated = 0
  /\ lgLevels = EmptyMap
  /\ lgLogs = EmptyMap
  /\ lgLast = NoHandle
  /\ lgRefs = [k \in Clients |-> NoInstance]


\* -------------------------------------------------------------- TodoModel
\* (MVCPattern.ts)  A todo is its id, title and completed flag; loadFromApi
\* is not part of the model.
NumListeners == 2
MaxTodos == 2
ModelListeners == 1..NumListeners
Titles == {"t1"}
\* ids passed to removeTodo/toggleTodo/updateTodo: present or not
TodoIds == 1..MaxTodos
\* the updates objects passed to updateTodo
Updates == {[title |-> "t1"], [completed |-> TRUE]}

TCallerActive ==
  IF tstack = <<>> THEN TRUE
  ELSE Last(tstack).running /\ tops < MaxReentrant

TCount == IF tstack = <<>> THEN 0 ELSE tops + 1

\* getAllTodos(): a copy of the list
GetAllTodos == [i \in DOMAIN todos |-> todos[i]]

\* this.todos.findIndex(t => t.id === id); 0 stands for -1
FindIndex(ts, id) ==
  IF \E i \in DOMAIN ts : ts[i].id = id
  THEN CHOOSE i \in DOMAIN ts :
         ts[i].id = id /\ \A j \in 1..(i - 1) : ts[j].id # id
  ELSE 0

\* Mutant of Found: the result of findIndex is not tested.
Found_Always(index) == TRUE

\* if (index !== -1), if (todo)
Found(index) == index # 0

\* this.todos.splice(index, 1); a start of -1 counts from the end
Splice(ts, index) ==
  LET at == IF index = 0 THEN Len(ts) ELSE index
  IN  [i \in 1..(IF ts = <<>> THEN 0 ELSE Len(ts) - 1) |->
         IF i < at THEN ts[i] ELSE ts[i + 1]]

\* what removeTodo(id) returns
RemoveTodoResult(id) == Found(FindIndex(todos, id))

\* Object.assign(todo, updates)
Assign(todo, updates) ==
  [f \in DOMAIN todo |-> IF f \in DOMAIN updates THEN updates[f] ELSE todo[f]]

\* notifyListeners(): this.listeners.forEach(listener => listener())
TNotifyFrame ==
  [pos |-> 0, running |-> FALSE, visited |-> <<>>,
   start |-> Range(listeners), removed |-> {}]

TFrameAfterDelete(f, l) ==
  IF Has(listeners, l)
  THEN [f EXCEPT !.pos = IF IndexOf(listeners, l) <= f.pos THEN f.pos - 1 ELSE f.pos,
                 !.removed = f.removed \cup {l}]
  ELSE f

\* addChangeListener(listener): returns () => this.listeners.delete(listener)
AddChangeListener(l, keep) ==
  /\ TCallerActive
  /\ listeners' = SetAdd(listeners, l)
  /\ thandle' = IF keep THEN <<l>> ELSE thandle
  /\ tformer' = tformer \ {l}
  /\ tops' = TCount
  /\ UNCHANGED <<todos, idCounter, tstack>>
  /\ UNCHANGED <<evars, svars, nvars, gvars, pvars, avars>>

\* Invoking the closure addChangeListener returned
TInvokeHandle ==
  /\ TCallerActive
  /\ thandle # NoHandle
  /\ listeners' = SetDelete(listeners, thandle[1])
  /\ tstack' = [i \in DOMAIN tstack |-> TFrameAfterDelete(tstack[i], thandle[1])]
  /\ tformer' = tformer \cup {thandle[1]}
  /\ tops' = TCount
  /\ UNCHANGED <<todos, idCounter, thandle>>
  /\ UNCHANGED <<evars, svars, nvars, gvars, pvars, avars>>

\* addTodo(title): id = ++this.idCounter, push, notify, return the todo
AddTodo(title) ==
  /\ TCallerActive
  /\ Len(tstack) < MaxDepth
  /\ idCounter < MaxTodos
  /\ idCounter' = idCounter + 1
  /\ todos' = Append(todos, [id |-> idCounter + 1, title |-> title,
                             completed |-> FALSE])
  /\ tstack' = Append(tstack, TNotifyFrame)
  /\ tops' = TCount
  /\ UNCHANGED <<listeners, thandle, tformer>>
  /\ UNCHANGED <<evars, svars, nvars, gvars, pvars, avars>>

\* removeTodo(id)
RemoveTodo(id) ==
  /\ TCallerActive
  /\ Found(FindIndex(todos, id)) => Len(tstack) < MaxDepth
  /\ todos' = IF Found(FindIndex(todos, id))
              THEN Splice(todos, FindIndex(todos, id)) ELSE todos
  /\ tstack' = IF Found(FindIndex(todos, id))
               THEN Append(tstack, TNotifyFrame) ELSE tstack
  /\ tops' = TCount
  /\ UNCHANGED <<listeners, idCounter, thandle, tformer>>
  /\ UNCHANGED <<evars, svars, nvars, gvars, pvars, avars>>

\* toggleTodo(id)
ToggleTodo(id) ==
  /\ TCallerActive
  /\ Found(FindIndex(todos, id)) => Len(tstack) < MaxDepth
  /\ todos' = IF Found(FindIndex(todos, id))
              THEN [todos EXCEPT ![FindIndex(todos, id)].completed = ~@]
              ELSE todos
  /\ tstack' = IF Found(FindIndex(todos, id))
               THEN Append(tstack, TNotifyFrame) ELSE tstack
  /\ tops' = TCount
  /\ UNCHANGED <<listeners, idCounter, thandle, tformer>>
  /\ UNCHANGED <<evars, svars, nvars, gvars, pvars, avars>>

\* updateTodo(id, updates)
UpdateTodo(id, updates) ==
  /\ TCallerActive
  /\ Found(FindIndex(todos, id)) => Len(tstack) < MaxDepth
  /\ todos' = IF Found(FindIndex(todos, id))
              THEN [todos EXCEPT ![FindIndex(todos, id)] = Assign(@, updates)]
              ELSE todos
  /\ tstack' = IF Found(FindIndex(todos, id))
               THEN Append(tstack, TNotifyFrame) ELSE tstack
  /\ tops' = TCount
  /\ UNCHANGED <<listeners, idCounter, thandle, tformer>>
  /\ UNCHANGED <<evars, svars, nvars, gvars, pvars, avars>>

\* clearCompleted(): returns how many todos were completed
ClearCompleted ==
  /\ TCallerActive
  /\ Len(tstack) < MaxDepth
  /\ todos' = SelectSeq(todos, LAMBDA t : ~t.completed)
  /\ tstack' = Append(tstack, TNotifyFrame)
  /\ tops' = TCount
  /\ UNCHANGED <<listeners, idCounter, thandle, tformer>>
  /\ UNCHANGED <<evars, svars, nvars, gvars, pvars, avars>>

\* clearAll()
ClearAll ==
  /\ TCallerActive
  /\ Len(tstack) < MaxDepth
  /\ todos' = <<>>
  /\ tstack' = Append(tstack, TNotifyFrame)
  /\ tops' = TCount
  /\ UNCHANGED <<listeners, idCounter, thandle, tformer>>
  /\ UNCHANGED <<evars, svars, nvars, gvars, pvars, avars>>

\* forEach calls the next listener
TDeliver ==
  /\ tstack # <<>>
  /\ ~Last(tstack).running
  /\ Last(tstack).pos < Len(listeners)
  /\ LET f == Last(tstack)
     IN tstack' = Append(Front(tstack),
                    [f EXCEPT !.pos = f.pos + 1, !.running = TRUE,
                              !.visited = Append(f.visited, listeners[f.pos + 1])])
  /\ UNCHANGED <<todos, listeners, idCounter, thandle, tformer, tops>>
  /\ UNCHANGED <<evars, svars, nvars, gvars, pvars, avars>>

\* forEach has passed the last listener: notifyListeners returns, and the
\* operation that called it returns its result
TNotifyReturn ==
  /\ tstack # <<>>
  /\ ~Last(tstack).running
  /\ Last(tstack).pos >= Len(listeners)
  /\ tstack' = Front(tstack)
  /\ tops' = IF Len(tstack) = 1 THEN 0 ELSE tops
  /\ UNCHANGED <<todos, listeners, idCounter, thandle, tformer>>
  /\ UNCHANGED <<evars, svars, nvars, gvars, pvars, avars>>

\* the running listener returns: forEach goes on
ListenerReturn ==
  /\ tstack # <<>>
  /\ Last(tstack).running
  /\ tstack' = Append(Front(tstack), [Last(tstack) EXCEPT !.running = FALSE])
  /\ UNCHANGED <<todos, listeners, idCounter, thandle, tformer, tops>>
  /\ UNCHANGED <<evars, svars, nvars, gvars, pvars, avars>>

\* the running listener throws: nothing catches it in notifyListeners or in
\* the operation, so it ends the operation in progress
ListenerThrow ==
  /\ tstack # <<>>
  /\ Last(tstack).running
  /\ tstack' = Front(tstack)
  /\ tops' = IF Len(tstack) = 1 THEN 0 ELSE tops
  /\ UNCHANGED <<todos, listeners, idCounter, thandle, tformer>>
  /\ UNCHANGED <<evars, svars, nvars, gvars, pvars, avars>>

TInit ==
  /\ todos = <<>>
  /\ listeners = <<>>
  /\ idCounter = 0
  /\ tstack = <<>>
  /\ thandle = NoHandle
  /\ tformer = {}
  /\ tops = 0

\* --------------------------------------------------------- ConnectionPool
\* (SingletonPattern.ts)  One pool object; a connection is its id and inUse
\* flag.  maxConnections is 10 in the source, a small number here.
PoolSize == 2
NumCallers == 3
MaxConnIds == 4
Callers == 1..NumCallers
ConnIds == 1..MaxConnIds
NoConn == 0
MaxValues == 0..PoolSize
NotWaiting == 0
\* the timer armed after the one the call slept on
NextTimer(t) == IF t = 1 THEN 2 ELSE 1

\* Logger.getInstance().<level>(text, 'ConnectionPool') made by a method of
\* another class: getInstance creates the Logger if there is none, log drops
\* the call below the current level, else pushes the entry and keeps the last
\* maxLogs entries
ClassLogs(level, text) ==
  LET inst == IF LgMissing(lgInstance) THEN lgCreated + 1 ELSE lgInstance
      levels == IF LgMissing(lgInstance) THEN MapSet(lgLevels, inst, "info")
                ELSE lgLevels
      logs == IF LgMissing(lgInstance) THEN MapSet(lgLogs, inst, <<>>) ELSE lgLogs
  IN  /\ lgInstance' = inst
      /\ lgCreated' = IF LgMissing(lgInstance) THEN lgCreated + 1 ELSE lgCreated
      /\ lgLevels' = levels
      /\ lgLogs' = IF ShouldLog(level, levels[inst])
                   THEN [logs EXCEPT ![inst] =
                           KeepLast(Append(@, [level |-> level, message |-> text]),
                                    MaxLogs)]
                   ELSE logs
      /\ lgLast' = NoHandle
      /\ UNCHANGED <<lgRefs, cmInstance, cmCreated, cmConfigs, cmRefs>>

\* Mutant of Available: find takes the first connection, in use or not.
Available_Any(conns) == IF conns = <<>> THEN 0 ELSE 1

\* this.connections.find(conn => !conn.inUse): its index, 0 for undefined
Available(conns) ==
  IF \E i \in DOMAIN conns : ~conns[i].inUse
  THEN CHOOSE i \in DOMAIN conns :
         ~conns[i].inUse /\ \A j \in 1..(i - 1) : conns[j].inUse
  ELSE 0

\* getStats()
GetStats ==
  [total |-> Len(connections),
   inUse |-> Cardinality({i \in DOMAIN connections : connections[i].inUse}),
   available |-> Cardinality({i \in DOMAIN connections : ~connections[i].inUse}),
   maxConnections |-> maxConnections]

\* The body of acquire() run for caller k: reuse the first free connection,
\* else create one if the pool is not full, else sleep 100 ms on a timer and
\* call acquire() again.
AcquireBody(k) ==
  IF Available(connections) # 0
  THEN /\ connections' = [connections EXCEPT ![Available(connections)].inUse = TRUE]
       /\ pgrant' = [pgrant EXCEPT ![k] = connections[Available(connections)].id]
       /\ pwait' = [pwait EXCEPT ![k] = NotWaiting]
       /\ ClassLogs("debug", "Reusing connection")
       /\ UNCHANGED <<maxConnections, connectionIdCounter>>
  ELSE IF Len(connections) < maxConnections
  THEN /\ connectionIdCounter' = connectionIdCounter + 1
       /\ connections' = Append(connections,
                                [id |-> connectionIdCounter + 1, inUse |-> TRUE])
       /\ pgrant' = [pgrant EXCEPT ![k] = connectionIdCounter + 1]
       /\ pwait' = [pwait EXCEPT ![k] = NotWaiting]
       /\ ClassLogs("info", "Created new connection")
       /\ UNCHANGED maxConnections
  ELSE /\ pwait' = [pwait EXCEPT ![k] = NextTimer(@)]
       /\ ClassLogs("warn", "Pool exhausted, waiting for available connection")
       /\ UNCHANGED <<connections, maxConnections, connectionIdCounter, pgrant>>

\* acquire() called by caller k
Acquire(k) ==
  /\ pwait[k] = NotWaiting
  /\ pgrant[k] = NoConn
  /\ AcquireBody(k)
  /\ UNCHANGED <<evars, svars, nvars, tvars, avars>>

\* the 100 ms timer of caller k's pending acquire() fires, the promise the
\* call awaits resolves and the call resumes: return this.acquire().
\* Nothing else runs between the timer and the resumed call.
Retry(k) ==
  /\ pwait[k] # NotWaiting
  /\ AcquireBody(k)
  /\ UNCHANGED <<evars, svars, nvars, tvars, avars>>

\* release(connectionId)
Release(id) ==
  /\ connections' = [i \in DOMAIN connections |->
                       IF connections[i].id = id
                       THEN [connections[i] EXCEPT !.inUse = FALSE]
                       ELSE connections[i]]
  /\ pgrant' = [k \in Callers |-> IF pgrant[k] = id THEN NoConn ELSE pgrant[k]]
  /\ IF \E i \in DOMAIN connections : connections[i].id = id
     THEN ClassLogs("debug", "Released connection")
     ELSE UNCHANGED gvars
  /\ UNCHANGED <<maxConnections, connectionIdCounter, pwait>>
  /\ UNCHANGED <<evars, svars, nvars, tvars, avars>>

\* setMaxConnections(max)
SetMaxConnections(max) ==
  /\ maxConnections' = max
  /\ UNCHANGED <<connections, connectionIdCounter, pwait, pgrant>>
  /\ UNCHANGED <<evars, svars, nvars, gvars, tvars, avars>>

\* closeAll(); the id counter is bounded by MaxConnIds
CloseAll ==
  /\ connectionIdCounter + PoolSize <= MaxConnIds
  /\ connections' = <<>>
  /\ ClassLogs("info", "All connections closed")
  /\ UNCHANGED <<maxConnections, connectionIdCounter, pwait, pgrant>>
  /\ UNCHANGED <<evars, svars, nvars, tvars, avars>>

PInit ==
  /\ connections = <<>>
  /\ maxConnections = PoolSize
  /\ connectionIdCounter = 0
  /\ pwait = [k \in Callers |-> NotWaiting]
  /\ pgrant = [k \in Callers |-> NoConn]

\* --------------------------------------------------------------- AppStore
\* (SingletonPattern.ts)  One store object with no listener subscribed, so
\* notify() calls nobody.  The data fields hold "empty" or "loaded", error
\* null or a message, lastUpdated null or a date.  A mockApi call resolves or
\* rejects.
MaxInFlight == 2
LoadKinds == {"users", "products", "tasks", "all"}
Null == "null"

InitialAppState ==
  [users |-> "empty", products |-> "empty", tasks |-> "empty",
   loading |-> FALSE, error |-> Null, lastUpdated |-> Null]

\* { ...this.state, ...partial }
Merge(state, partial) ==
  [f \in DOMAIN state |-> IF f \in DOMAIN partial THEN partial[f] ELSE state[f]]

\* getState(): a copy of the state
GetAppState == [f \in DOMAIN astate |-> astate[f]]

\* the partial state a load method sets when its API call resolves
Loaded(kind) ==
  CASE kind = "users" ->
         [users |-> "loaded", loading |-> FALSE, lastUpdated |-> "date"]
    [] kind = "products" ->
         [products |-> "loaded", loading |-> FALSE, lastUpdated |-> "date"]
    [] kind = "tasks" ->
         [tasks |-> "loaded", loading |-> FALSE, lastUpdated |-> "date"]
    [] kind = "all" ->
         [users |-> "loaded", products |-> "loaded", tasks |-> "loaded",
          loading |-> FALSE, lastUpdated |-> "date"]

LoadedText(kind) ==
  CASE kind = "users" -> "Users loaded successfully"
    [] kind = "products" -> "Products loaded successfully"
    [] kind = "tasks" -> "Tasks loaded successfully"
    [] kind = "all" -> "All data loaded successfully"

FailedText(kind) ==
  CASE kind = "users" -> "Failed to load users"
    [] kind = "products" -> "Failed to load products"
    [] kind = "tasks" -> "Failed to load tasks"
    [] kind = "all" -> "Failed to load data"

\* how many load calls are in flight
RECURSIVE SumFlight(_, _)
SumFlight(f, kinds) ==
  IF kinds = {} THEN 0
  ELSE LET k == CHOOSE x \in kinds : TRUE
       IN  f[k] + SumFlight(f, kinds \ {k})
InFlight == SumFlight(aflight, LoadKinds)

\* loadUsers / loadProducts / loadTasks / loadAll up to the await:
\* setState({ loading: true, error: null }), then the API call is pending
LoadStart(kind) ==
  /\ InFlight < MaxInFlight
  /\ astate' = Merge(astate, [loading |-> TRUE, error |-> Null])
  /\ aflight' = [aflight EXCEPT ![kind] = @ + 1]
  /\ UNCHANGED <<evars, svars, nvars, gvars, tvars, pvars>>

\* the awaited API call resolves: setState({ <data>, loading: false,
\* lastUpdated: new Date() }) and an info log
LoadResolve(kind) ==
  /\ aflight[kind] > 0
  /\ astate' = Merge(astate, Loaded(kind))
  /\ aflight' = [aflight EXCEPT ![kind] = @ - 1]
  /\ ClassLogs("info", LoadedText(kind))
  /\ UNCHANGED <<evars, svars, nvars, tvars, pvars>>

\* the awaited API call rejects: the catch block runs
\* setState({ error: <message>, loading: false }) and an error log
LoadReject(kind) ==
  /\ aflight[kind] > 0
  /\ astate' = Merge(astate, [error |-> FailedText(kind), loading |-> FALSE])
  /\ aflight' = [aflight EXCEPT ![kind] = @ - 1]
  /\ ClassLogs("error", FailedText(kind))
  /\ UNCHANGED <<evars, svars, nvars, tvars, pvars>>

AInit ==
  /\ astate = InitialAppState
  /\ aflight = [kind \in LoadKinds |-> 0]

\* ----------------------------------------------------------- specifications
vars == <<evars, svars, nvars, gvars, ovars>>
Init == EInit /\ SInit /\ NInit /\ GInit /\ TInit /\ PInit /\ AInit

GNext ==
  \/ \E k \in Clients : CmGetInstance(k)
  \/ \E k \in Clients, key \in SetKeys, value \in SetValues : CmSet(k, key, value)
  \/ \E k \in Clients : CmReset(k)
  \/ \E k \in Clients : LgGetInstance(k)
  \/ \E k \in Clients, level \in LogLevels : LgSetLevel(k, level)

\* The two singletons and the clients that hold references to them.
SpecSingleton == Init /\ [][GNext]_vars

\* The Logger and the clients that log through it.
LNext ==
  \/ \E k \in Clients : LgGetInstance(k)
  \/ \E k \in Clients, level \in LogLevels : LgSetLevel(k, level)
  \/ \E k \in Clients, level \in LogLevels, message \in Messages :
        LgLog(k, level, message)
  \/ \E k \in Clients : LgClearLogs(k)
SpecLogger == Init /\ [][LNext]_vars

\* The TodoModel, its change listeners and its callers.
TNext ==
  \/ \E l \in ModelListeners, keep \in BOOLEAN : AddChangeListener(l, keep)
  \/ TInvokeHandle
  \/ \E title \in Titles : AddTodo(title)
  \/ \E id \in TodoIds : RemoveTodo(id)
  \/ \E id \in TodoIds : ToggleTodo(id)
  \/ \E id \in TodoIds, updates \in Updates : UpdateTodo(id, updates)
  \/ ClearCompleted
  \/ ClearAll
  \/ TDeliver
  \/ TNotifyReturn
  \/ ListenerReturn
  \/ ListenerThrow
SpecTodo == Init /\ [][TNext]_vars

\* The connection pool and its callers.
PNext ==
  \/ \E k \in Callers : Acquire(k)
  \/ \E k \in Callers : Retry(k)
  \/ \E id \in ConnIds : Release(id)
  \/ \E max \in MaxValues : SetMaxConnections(max)
  \/ CloseAll
SpecPool == Init /\ [][PNext]_vars

\* The AppStore and its concurrently running load calls.
ANext ==
  \/ \E kind \in LoadKinds : LoadStart(kind)
  \/ \E kind \in LoadKinds : LoadResolve(kind)
  \/ \E kind \in LoadKinds : LoadReject(kind)
SpecAppStore == Init /\ [][ANext]_vars

\* The pool at its initial size with callers that acquire and release.  The
\* timer of a pending call fires 100 ms after it was armed, whatever the
\* other callers do: the retry of a pending call is weakly fair.
PFairNext ==
  \/ \E k \in Callers : Acquire(k)
  \/ \E k \in Callers : Retry(k)
  \/ \E id \in ConnIds : Release(id)
SpecPoolFair ==
  /\ Init
  /\ [][PFairNext]_vars
  /\ \A k \in Callers : WF_vars(Retry(k))

ENext ==
  \/ \E t \in Topics, c \in Callbacks, keep \in BOOLEAN : On(t, c, keep)
  \/ \E t \in Topics, c \in Callbacks : Off(t, c)
  \/ \E h \in Topics \X AllCallbacks : InvokeHandle(h)
  \/ \E t \in Topics, d \in Payloads : Emit(t, d)
  \/ EmitDeliver
  \/ EmitReturn
  \/ CallbackReturn
  \/ CallbackThrow
  \/ \E arg \in Topics \cup {Undefined} : RemoveAllListeners(arg)

SNext ==
  \/ \E arg \in SetStateArgs : SetState(arg)
  \/ \E d \in Refs : Notify(d)
  \/ \E o \in Observers : Subscribe(o)
  \/ \E o \in Observers : Unsubscribe(o)
  \/ StoreDeliver
  \/ NotifyReturn
  \/ UpdateReturn
  \/ UpdateThrow

NNext ==
  \/ \E sub \in Subscribers, keep \in BOOLEAN : NewsSubscribe(sub, keep)
  \/ NewsInvokeHandle
  \/ \E id \in SubscriberIds : NewsUnsubscribe(id)
  \/ \E category \in ArticleCategories : Publish(category)
  \/ PublishVisit
  \/ PublishReturn
  \/ OnNewsReturn
  \/ OnNewsThrow

\* Each class is an independent object; each specification runs one of them.
SpecEmitter == Init /\ [][ENext]_vars
SpecStore == Init /\ [][SNext]_vars
SpecNews == Init /\ [][NNext]_vars

\* The emitter with a once() registration.
EOnceNext == ENext \/ \E t \in Topics, keep \in BOOLEAN : Once(t, keep)
SpecEmitterOnce == Init /\ [][EOnceNext]_vars

\* The emitter's registration calls alone: on, once, off, the returned
\* closures and removeAllListeners, in any order, no emit.
ERegistryNext ==
  \/ \E t \in Topics, c \in Callbacks, keep \in BOOLEAN : On(t, c, keep)
  \/ \E t \in Topics, keep \in BOOLEAN : Once(t, keep)
  \/ \E t \in Topics, c \in Callbacks : Off(t, c)
  \/ \E h \in Topics \X AllCallbacks : InvokeHandle(h)
  \/ \E arg \in Topics \cup {Undefined} : RemoveAllListeners(arg)
SpecEmitterRegistry == Init /\ [][ERegistryNext]_vars

\* The store together with a caller that writes to what getState() returned.
SCallerNext == SNext \/ \E v \in Contents : MutateReturned(v)
SpecStoreCaller == Init /\ [][SCallerNext]_vars

\* The store with observers whose update() calls return normally and that
\* reach the store through subscribe, unsubscribe and setState only.
SReentrantNext ==
  \/ \E arg \in SetStateArgs : SetState(arg)
  \/ \E o \in Observers : Subscribe(o)
  \/ \E o \in Observers : Unsubscribe(o)
  \/ StoreDeliver
  \/ NotifyReturn
  \/ UpdateReturn
SpecStoreReentrant == Init /\ [][SReentrantNext]_vars

\* ------------------------------------------------- EventEmitter: claims
Registered(t, c) == t \in DOMAIN events /\ Has(events[t], c)
Listeners(t) == IF t \in DOMAIN events THEN events[t] ELSE <<>>
\* an emit call ends in this step (forEach finished, or a callback threw)
EmitEnds == Len(estack') < Len(estack)

\* C1 (as claimed): when an emit(T, P) call ends, every callback that was
\* registered under T when emit was called has been invoked exactly once
\* with P.
C1_EmitInvokesEachOnce ==
  [][EmitEnds =>
       \A c \in Last(estack).start :
          Count(Last(estack).visited, <<c, Last(estack).data>>) = 1]_vars

\* C2: off(T, S) and the handle of on(T, S) leave S unregistered under T; S
\* becomes registered again only through on(T, S); and an emit invokes only
\* callbacks that were registered under T when it was called or were
\* registered by on during the pass.  Hence no emit called after the removal
\* invokes S.
C2_NoDeliveryAfterOff ==
  [][/\ \A t \in Topics, c \in Callbacks :
          /\ (Off(t, c) \/ InvokeHandle(<<t, c>>)) => ~Registered(t, c)'
          /\ (~Registered(t, c) /\ Registered(t, c)')
                => \E keep \in BOOLEAN : On(t, c, keep)
     /\ \A t \in Topics, d \in Payloads :
          (Emit(t, d) /\ t \in DOMAIN events)
             => Last(estack').start = {c \in AllCallbacks : Registered(t, c)}
     /\ EmitDeliver =>
          LET f == Last(estack')
          IN  Last(f.visited)[1] \in f.start \cup f.added]_vars

\* C2 witness: S = callback 1 was registered under "a" through on (the
\* caller holds its handle), was removed, and a later emit("a") has
\* completed its pass over another subscriber without invoking S.
C2_Witness ==
  /\ ehandle = <<"a", 1>>
  /\ estack # <<>>
  /\ LET f == Last(estack)
     IN /\ f.event = "a" /\ f.live /\ ~f.running
        /\ 1 \notin f.start
        /\ f.visited = <<<<2, f.data>>>>
        /\ f.pos = Len(events["a"])

\* C3: off(T, S) and the handle of on(T, S), when S is not registered under
\* T, change the listeners of no topic and end no emit in progress.
C3_OffAbsentIsNoOp ==
  [][\A t \in Topics, c \in Callbacks :
        ((Off(t, c) \/ InvokeHandle(<<t, c>>)) /\ ~Registered(t, c))
          => /\ \A u \in Topics : Listeners(u)' = Listeners(u)
             /\ estack' = estack]_vars

\* C3 witness: the caller holds the handle of on("a", 1), callback 1 is no
\* longer registered under "a", and another subscriber of "a" remains.
C3_Witness ==
  /\ ehandle = <<"a", 1>>
  /\ ~Registered("a", 1)
  /\ Registered("a", 2)
  /\ estack = <<>>

\* C9 (as claimed): an emit pass during which a callback called off on
\* another subscriber of the same topic does not end by an exception, and every
\* subscriber registered when emit was called and not removed during the
\* pass has been invoked exactly once when the pass ends.
C9_ReentrantOffSafe ==
  [][(EmitEnds /\ Last(estack).offOther) =>
       /\ ~Last(estack).running
       /\ \A c \in Last(estack).start \ Last(estack).removed :
             Count(Last(estack).visited, <<c, Last(estack).data>>) = 1]_vars

\* C10 (as claimed): a callback that throws does not end the pass: an emit
\* ends only after every entry of the set it iterates has been visited.
C10_ThrowIsIsolated ==
  [][EmitEnds => Last(estack).pos >= Len(FrameSet(Last(estack)))]_vars


\* Lemma (not a claim): an emit pass that runs to its end, no callback having
\* thrown, has invoked exactly once every callback that was registered when
\* emit was called and was not removed during the pass.
EmitReturnVisitsAll ==
  [][(EmitEnds /\ ~Last(estack).running) =>
       \A c \in Last(estack).start \ Last(estack).removed :
          Count(Last(estack).visited, <<c, Last(estack).data>>) = 1]_vars

C16_OnceInvokesOnce == ecalls <= 1

\* Lemma (not a claim): the closure returned by once() unregisters the wrapper,
\* the wrapper is registered by once() only, and the callback given to once()
\* is invoked only by a pass that finds the wrapper registered.
OnceHandleUnregisters ==
  [][/\ \A t \in Topics :
          /\ InvokeHandle(<<t, Wrapper>>) => ~Registered(t, Wrapper)'
          /\ (~Registered(t, Wrapper) /\ Registered(t, Wrapper)')
                => \E keep \in BOOLEAN : Once(t, keep)
     /\ ecalls' # ecalls =>
          /\ EmitDeliver
          /\ Has(FrameSet(Last(estack)), Wrapper)]_vars

\* C17 (as claimed): removeAllListeners(T), for every topic string T, leaves
\* T without listeners and the listeners of every other topic unchanged;
\* removeAllListeners() leaves every topic without listeners.
C17_RemoveAllListenersScoped ==
  [][/\ \A t \in Topics :
          RemoveAllListeners(t)
            => /\ Listeners(t)' = <<>>
               /\ \A u \in Topics \ {t} : Listeners(u)' = Listeners(u)
     /\ RemoveAllListeners(Undefined) => \A u \in Topics : Listeners(u)' = <<>>]_vars

\* Lemma (not a claim): C17 holds for every topic other than the empty string.
RemoveAllListenersScopedNonEmpty ==
  [][/\ \A t \in Topics \ {""} :
          RemoveAllListeners(t)
            => /\ Listeners(t)' = <<>>
               /\ \A u \in Topics \ {t} : Listeners(u)' = Listeners(u)
     /\ RemoveAllListeners(Undefined) => \A u \in Topics : Listeners(u)' = <<>>]_vars

\* C18: listenerCount(T) is the number of distinct callbacks registered under
\* T (once's wrapper counts as one), and 0 when T has no entry in the map
\* (never subscribed, or cleared by removeAllListeners).
C18_ListenerCountIsSetSize ==
  \A t \in Topics :
     /\ ListenerCount(t) = Cardinality({c \in AllCallbacks : Registered(t, c)})
     /\ t \notin DOMAIN events => ListenerCount(t) = 0

\* C18 witness: after on, once, a second on of a registered callback and an
\* off, topic "a" holds callback 1 and once's wrapper, and the topic "" has
\* no entry in the map; no call is in progress.
C18_Witness ==
  /\ estack = <<>>
  /\ ehandle = <<"a", 1>> /\ edup
  /\ Registered("a", 1) /\ Registered("a", Wrapper) /\ ~Registered("a", 2)
  /\ ListenerCount("a") = 2
  /\ "" \notin DOMAIN events
  /\ ListenerCount("") = 0

\* Lemma (not a claim): the emitter delivers synchronously too.  An emit call
\* starts only at top level or from inside a running callback, and a pass
\* delivers the data of the emit call that started it.
EmitDeliversOwnData ==
  [][/\ (\E t \in Topics, d \in Payloads : Emit(t, d))
          => (estack = <<>> \/ Last(estack).running)
     /\ \A t \in Topics, d \in Payloads :
          (Emit(t, d) /\ estack' # estack) => Last(estack').data = d
     /\ \A i \in DOMAIN estack \cap DOMAIN estack' : estack'[i].data = estack[i].data
     /\ EmitDeliver => Last(Last(estack').visited)[2] = Last(estack).data]_vars

\* ---------------------------------------------- ObservableStore: claims
\* a notify pass (not a subscribe call) ends in this step
NotifyEnds == Len(sstack') < Len(sstack) /\ Last(sstack).kind # "subscribe"

\* C4 (as claimed): a setState whose resulting value is identical to the
\* current state starts no notification; a setState that changes the value
\* starts a pass with the new value, and when that pass ends every observer
\* that was subscribed at the setState has been invoked exactly once with
\* the new value.
C4_NotifyIffChanged ==
  [][/\ \A arg \in SetStateArgs :
          SetState(arg) =>
            IF sstate' = sstate THEN sstack' = sstack
            ELSE /\ Len(sstack') = Len(sstack) + 1
                 /\ Last(sstack').kind = "setState"
                 /\ Last(sstack').data = sstate'
     /\ (NotifyEnds /\ Last(sstack).kind = "setState") =>
          \A o \in Last(sstack).start :
             Count(Last(sstack).visited, <<o, Last(sstack).data>>) = 1]_vars

\* C5: subscribe(O) calls O.update with the store's current state before it
\* returns, and calls it once: the subscribe call in progress has made
\* exactly one update call.
C5_SubscribeReplays ==
  /\ [][\A o \in Observers :
          Subscribe(o) =>
            /\ Len(sstack') = Len(sstack) + 1
            /\ Last(sstack').kind = "subscribe"
            /\ Last(sstack').running
            /\ Last(sstack').visited = <<<<o, GetState>>>>]_vars
  /\ [](\A i \in DOMAIN sstack :
          sstack[i].kind = "subscribe" => Len(sstack[i].visited) = 1)

\* C5 witness: after a setState to reference 2, observer 2 subscribes and its
\* update is running with reference 2.
C5_Witness ==
  /\ sstack # <<>>
  /\ Last(sstack).kind = "subscribe"
  /\ Last(sstack).running
  /\ Last(sstack).visited = <<<<2, 2>>>>
  /\ sstate = 2
  /\ Has(observers, 2)

C15_GetStateReturnsCopy ==
  [][\A v \in Contents :
        MutateReturned(v)
          => /\ sheap'[GetState'] = sheap[GetState]
             /\ \A i \in DOMAIN sstack : sheap'[sstack[i].data] = sheap[sstack[i].data]]_vars

\* C11: when the updater passed to setState throws, the exception reaches the
\* caller of setState, getState() returns what it returned before the call,
\* and no notification pass is started and no pass in progress is changed.
C11_UpdaterThrowKeepsState ==
  [][\A arg \in SetStateArgs :
        (SetState(arg) /\ UpdaterThrows(sstate, arg))
          => /\ sthrown'
             /\ GetState' = GetState
             /\ sstack' = sstack
             /\ observers' = observers]_vars

\* C11 witness: with two observers subscribed and the state changed to
\* reference 2, a setState whose updater threw has just returned to the
\* top-level caller.
C11_Witness ==
  /\ sthrown
  /\ sstate = 2
  /\ Len(observers) = 2
  /\ sstack = <<>>

\* ------------------------------------------------ NewsPublisher: claims
PublishEnds == Len(nstack') < Len(nstack)

\* C7 (as claimed): when a publish call ends, each subscriber that was
\* registered when publish was called has been invoked exactly once with the
\* new article if its categories contain the article's category or "all",
\* and not at all otherwise.
C7_DeliveredIffInterested ==
  [][PublishEnds =>
       LET f == Last(nstack)
       IN \A sub \in f.start :
            Count(f.visited, <<sub, f.article>>) =
              IF f.article.category \in sub.categories \/ "all" \in sub.categories
              THEN 1 ELSE 0]_vars

\* C8: the articles published so far carry the ids 1, 2, 3, ... in the order
\* of publication, getArticles() returns them in that order, and the article
\* a publish call in progress returns is the one logged under its id.
C8_IdsCountFromOne ==
  /\ Len(GetArticles) = articleIdCounter
  /\ \A i \in DOMAIN GetArticles : GetArticles[i].id = i
  /\ \A k \in DOMAIN nstack :
        /\ nstack[k].article.id \in DOMAIN articles
        /\ articles[nstack[k].article.id] = nstack[k].article

\* C8 witness: two articles of different categories were published while two
\* subscribers were registered.
C8_Witness ==
  /\ Len(articles) = 2
  /\ articles[1].category # articles[2].category
  /\ Len(subscribers) = 2
  /\ nstack = <<>>

\* C19 (as claimed): invoking the closure returned by a subscribe call leaves
\* registered every subscriber that was registered by a different subscribe
\* call, one registered later under the same id included; invoking it again,
\* its own subscription being gone, changes nothing.
C19_HandleRemovesOwnOnly ==
  [][NewsInvokeHandle =>
       \A i \in DOMAIN subscribers :
          (~nown \/ subscribers[i].id # nhandle.id)
             => Has(subscribers', subscribers[i])]_vars

\* Lemma (not a claim): the closure leaves registered every subscriber whose
\* id differs from the id of the subscriber it was returned for, and only
\* those.
HandleRemovesItsId ==
  [][NewsInvokeHandle =>
       /\ \A i \in DOMAIN subscribers :
             subscribers[i].id # nhandle.id => Has(subscribers', subscribers[i])
       /\ ~HasKey(subscribers', nhandle.id)
       /\ Range(subscribers') \subseteq Range(subscribers)]_vars

\* ----------------------------------------------------- Singleton: claims
\* C20: at most one ConfigurationManager and at most one Logger are ever
\* constructed; every reference a client got from getInstance() is the
\* class's one instance; and what one client set (a config value, the log
\* level) is what every other client reads.
C20_SameInstance ==
  /\ cmCreated <= 1 /\ lgCreated <= 1
  /\ \A k \in Clients :
        /\ cmRefs[k] \in {NoInstance, cmInstance}
        /\ lgRefs[k] \in {NoInstance, lgInstance}
  /\ \A j, k \in Clients :
        /\ (cmRefs[j] # NoInstance /\ cmRefs[k] # NoInstance)
              => /\ cmRefs[j] = cmRefs[k]
                 /\ \A key \in ConfigKeys : CmGet(j, key) = CmGet(k, key)
        /\ (lgRefs[j] # NoInstance /\ lgRefs[k] # NoInstance)
              => /\ lgRefs[j] = lgRefs[k]
                 /\ LgGetLevel(j) = LgGetLevel(k)

\* C20 witness: both clients called getInstance() of both classes; a set
\* and a setLevel were made; client 2 reads the values.
C20_Witness ==
  /\ \A k \in Clients : cmRefs[k] # NoInstance /\ lgRefs[k] # NoInstance
  /\ CmGet(2, "timeout") = "10000"
  /\ CmGet(2, "customKey") = "customValue"
  /\ LgGetLevel(2) = "debug"

\* ------------------------------------------------- NewsPublisher: more claims
\* the log entries that carry id n
Logged(n) == {i \in DOMAIN articles : articles[i].id = n}

\* C12: a subscriber's exception leaves the counter and the log as publish
\* set them, with the failed publish's article logged exactly once; every
\* publish takes an id greater than every id in the log; so the log is in
\* strictly increasing id order and each failed publish's id appears in it
\* exactly once.
C12_FailedPublishKeepsId ==
  /\ [][/\ OnNewsThrow =>
             /\ articleIdCounter' = articleIdCounter
             /\ articles' = articles
             /\ LET n == Last(nstack).article.id
                IN  Cardinality({i \in DOMAIN articles' : articles'[i].id = n}) = 1
         /\ \A category \in ArticleCategories :
              Publish(category) =>
                /\ Len(articles') = Len(articles) + 1
                /\ \A i \in DOMAIN articles : articles[i].id < Last(articles').id]_vars
  /\ [](/\ \A i, j \in DOMAIN articles : i < j => articles[i].id < articles[j].id
        /\ \A n \in nfailed : Cardinality(Logged(n)) = 1)

\* C12 witness: the publish of article 1 ended by a subscriber's exception,
\* and a later publish has returned, its article logged under id 2.
C12_Witness ==
  /\ nfailed = {1}
  /\ Len(articles) = 2
  /\ articles[2].id = 2
  /\ nstack = <<>>

\* ------------------------------------------------ Singleton: more claims
\* C21 (as claimed): after reset() the configuration is the one a freshly
\* constructed ConfigurationManager starts with.
C21_ResetRestoresDefaults ==
  [][\A k \in Clients : CmReset(k) => CmGetAll(k)' = DefaultConfig]_vars

\* Lemma (not a claim): after reset() no key passed to set() earlier remains
\* unless it is a default key, and apiUrl, timeout and maxRetries hold their
\* default values.
ResetRestoresThreeKeys ==
  [][\A k \in Clients :
        CmReset(k) =>
          /\ DOMAIN CmGetAll(k)' \subseteq DOMAIN DefaultConfig
          /\ \A key \in {"apiUrl", "timeout", "maxRetries"} :
                CmGet(k, key)' = DefaultConfig[key]]_vars

\* the order debug < info < warn < error
LevelOrder == <<"debug", "info", "warn", "error">>
Rank(level) == CHOOSE i \in DOMAIN LevelOrder : LevelOrder[i] = level

\* C22: a call at level L made at current level C leaves the log unchanged
\* when L is below C; otherwise it adds exactly one entry, the call's, at
\* the end of the log, the earlier entries keeping their order (the log
\* holds the last maxLogs entries: beyond that the oldest entry is dropped).
\* getLogs() returns the entries in that order.
C22_LogIffAtOrAboveLevel ==
  \A k \in Clients : (lgLast # NoHandle /\ lgRefs[k] # NoInstance) =>
    LET old == lgLast.before
        new == LgGetLogs(k)
        entry == [level |-> lgLast.level, message |-> lgLast.message]
    IN  IF Rank(lgLast.level) >= Rank(lgLast.current)
        THEN /\ new # <<>>
             /\ Last(new) = entry
             /\ Front(new) = KeepLast(old, MaxLogs - 1)
             /\ Len(old) < MaxLogs => Len(new) = Len(old) + 1
        ELSE new = old

\* C22 witness: at level 'warn' the log holds a warn entry followed by an
\* error entry, in the order of the calls, and an info call has just been
\* dropped.
C22_Witness ==
  /\ lgRefs[1] # NoInstance
  /\ lgLast # NoHandle /\ lgLast.level = "info" /\ lgLast.current = "warn"
  /\ LgGetLevel(1) = "warn"
  /\ LgGetLogs(1) = <<[level |-> "warn", message |-> "m1"],
                       [level |-> "error", message |-> "m1"]>>
\* ------------------------------------------------------ TodoModel: claims
\* a notifyListeners pass ends in this step
TNotifyEnds == Len(tstack') < Len(tstack)

\* the todo list changes the model: the operation finds its todo, or is one
\* of addTodo, clearCompleted, clearAll
TodoMutation ==
  \/ \E title \in Titles : AddTodo(title)
  \/ \E id \in TodoIds : Found(FindIndex(todos, id)) /\ RemoveTodo(id)
  \/ \E id \in TodoIds : Found(FindIndex(todos, id)) /\ ToggleTodo(id)
  \/ \E id \in TodoIds, updates \in Updates :
        Found(FindIndex(todos, id)) /\ UpdateTodo(id, updates)
  \/ ClearCompleted
  \/ ClearAll

\* C23 (as claimed): every mutating operation that changes the model starts
\* a notification of the listeners registered at that moment, and when the
\* operation ends each of them has been invoked exactly once; and no
\* listener is invoked after the closure returned for it by
\* addChangeListener was invoked, unless it was added again.
C23_MutationNotifiesEachOnce ==
  [][/\ TodoMutation =>
          /\ Len(tstack') = Len(tstack) + 1
          /\ Last(tstack').start = Range(listeners)
     /\ TNotifyEnds =>
          \A l \in Last(tstack).start : Count(Last(tstack).visited, l) = 1
     /\ TDeliver => Last(Last(tstack').visited) \notin tformer]_vars

\* What the model does satisfy: a pass that runs to its end has invoked
\* exactly once every listener that was registered when it started and was
\* not removed during it, and no listener is invoked after its closure was
\* invoked, unless it was added again.
TodoPassVisitsAll ==
  [][/\ TNotifyReturn =>
          \A l \in Last(tstack).start \ Last(tstack).removed :
             Count(Last(tstack).visited, l) = 1
     /\ TDeliver => Last(Last(tstack').visited) \notin tformer]_vars

C25_NoStaleObserver ==
  [][(NotifyReturn /\ Len(sstack) = 1 /\ Last(sstack).kind = "setState") =>
        \A o \in Range(observers) : sseen[o] = GetState]_vars

\* What the model does satisfy: a top-level setState call during which no
\* update() called the store leaves every subscribed observer with
\* getState().
NonReentrantNoStale ==
  [][(NotifyReturn /\ Len(sstack) = 1 /\ Last(sstack).kind = "setState"
        /\ sops = 0) =>
        \A o \in Range(observers) : sseen[o] = GetState]_vars

\* ------------------------------------------------- ConnectionPool: claims
\* C26 (as claimed): in every reachable state the pool holds at most
\* maxConnections connections: getStats().total <= getStats().maxConnections.
C26_TotalWithinMax == GetStats.total <= GetStats.maxConnections

\* What the model does satisfy: acquire adds a connection only while the
\* pool holds fewer than maxConnections, so the pool never grows beyond it.
PoolGrowsWithinMax ==
  [][Len(connections') > Len(connections) =>
        Len(connections') <= maxConnections']_vars

\* C27: no two callers hold the same connection at once, a caller holding
\* the connection acquire() returned to it until release is called with
\* that connection's id; and every connection created gets an id above
\* every id given out before, also after closeAll.
C27_ExclusiveConnections ==
  /\ [](\A k1, k2 \in Callers :
          (k1 # k2 /\ pgrant[k1] # NoConn) => pgrant[k1] # pgrant[k2])
  /\ [](\A i \in DOMAIN connections : connections[i].id <= connectionIdCounter)
  /\ [][/\ connectionIdCounter' >= connectionIdCounter
        /\ \A i \in DOMAIN connections' :
             (\A j \in DOMAIN connections : connections[j].id # connections'[i].id)
               => connections'[i].id > connectionIdCounter]_vars

\* C27 witness: caller 1 still holds conn_1, which closeAll dropped from the
\* pool, and caller 2 holds conn_3, created after closeAll.
C27_Witness ==
  /\ pgrant[1] = 1
  /\ pgrant[2] = 3
  /\ connections = <<[id |-> 3, inUse |-> TRUE]>>

\* C28 (as claimed): a pending acquire() that sees a free connection in the
\* pool, one that was released while it waited, eventually returns a
\* connection to its caller.
C28_WaiterEventuallyAcquires ==
  \A k \in Callers :
    (pwait[k] # NotWaiting /\ Available(connections) # 0) ~> (pgrant[k] # NoConn)

\* What the model does satisfy: a retry that runs while a connection is free
\* takes it.
RetryTakesFreeConnection ==
  [][\A k \in Callers :
        (Retry(k) /\ Available(connections) # 0) =>
          pgrant'[k] = connections[Available(connections)].id]_vars

\* ------------------------------------------------------- AppStore: claims
\* C29 (as claimed): state.loading is true whenever at least one load call
\* is in flight, and it becomes false only when the last load in flight
\* completes.
C29_LoadingWhileInFlight ==
  /\ [](InFlight > 0 => GetAppState.loading)
  /\ [][(astate.loading /\ ~astate'.loading) => InFlight' = 0]_vars

\* What the model does satisfy: loading is what the last start or completion
\* set: true after a load starts, false after any load completes.
LoadingFollowsLastEvent ==
  [][\A kind \in LoadKinds :
        /\ LoadStart(kind) => GetAppState'.loading
        /\ (LoadResolve(kind) \/ LoadReject(kind)) => ~GetAppState'.loading]_vars

====
